---- MODULE Spec2Model ----
(***************************************************************************)
(* Model of the batching pipeline of                                       *)
(* src/seamless_communication/cli/m4t/finetune/dataloader.py               *)
(* (class UnitYDataLoader): the collate function _prepare_batch with its   *)
(* duration filter, NaN filter, per-language encoder caches, padding       *)
(* (_batch_tensors) and target shift, and get_dataloader's sharding.       *)
(*                                                                         *)
(* Tensors are sequences along their leading dimension.  A filterbank      *)
(* matrix (time x 80 mel bins) is the sequence of its time steps, each     *)
(* time step being one value: "x" (finite data), "nan", "inf", or the pad  *)
(* value.  Token tensors are sequences of integers.                        *)
(* Optional[T] is a sequence of length at most one: None is << >> and a    *)
(* present value v is << v >>.                                             *)
(***************************************************************************)
EXTENDS Integers, Sequences, FiniteSets, TLC

VARIABLES
    manifest,                \* which manifest self.dataset was loaded from
    text_encoders_per_lang,  \* dict: target language -> text encoder
    unit_encoders_per_lang,  \* dict: target language -> unit encoder
    text_creates,            \* calls of text_tokenizer.create_encoder, per language
    unit_creates,            \* calls of unit_tokenizer.create_encoder, per language
    pc,                      \* "idle" | "returned" | "failed" (of the collate call)
    call,                    \* the last _prepare_batch call: its argument, locals, result
    world,                   \* the process group: dataset size, world size, each rank's subset
    bt                       \* a call of _batch_tensors: its arguments and result

vars == << manifest, text_encoders_per_lang, unit_encoders_per_lang,
           text_creates, unit_creates, pc, call, world, bt >>

---------------------------------------------------------------------------
(* Bounds of the model *)

MaxFbankLen == 2     \* time steps of a feature matrix
MaxTextLen == 1      \* text pieces of a target text
MaxUnitsLen == 1     \* unit ids of a target unit sequence
MaxRecords == 6      \* records of a manifest (sharding)
MaxWorld == 4        \* world size (sharding)
MaxTensors == 2      \* tensors handed to one _batch_tensors call
MaxTensorLen == 2    \* leading length of such a tensor

(* Program constants *)

SAMPLE_RATE == 16000
max_audio_length_sec == 15
batch_size == 2
fbank_feats_pad_idx == "0.0"

Langs == {"eng", "fra"}

None == << >>
Some(v) == << v >>

Max(a, b) == IF a >= b THEN a ELSE b
Min(a, b) == IF a <= b THEN a ELSE b

RECURSIVE MaxOf(_)
MaxOf(ns) == IF Len(ns) = 1 THEN ns[1] ELSE Max(ns[1], MaxOf(Tail(ns)))

\* the sequences over S of length lo..hi
SeqsOf(S, lo, hi) == UNION { [1..n -> S] : n \in lo..hi }

---------------------------------------------------------------------------
(* The tokenizers (external collaborators): vocabulary indices and the     *)
(* encoders create_encoder returns.  An encoder prepends <eos>, <lang>.    *)

text_eos_idx == 3
text_pad_idx == 0
unit_eos_idx == 2
unit_pad_idx == 1
TextPieces == {7}            \* ids of text pieces
UnitIds == {5}               \* unit ids

TextLangTok(lang) == IF lang = "eng" THEN 10 ELSE 11
UnitLangTok(lang) == IF lang = "eng" THEN 20 ELSE 21

\* text_tokenizer.create_encoder(lang=.., mode="target"): a new encoder object
TextCreateEncoder(lang, serial) == [lang |-> lang, mode |-> "target", serial |-> serial]
\* unit_tokenizer.create_encoder(lang=..)
UnitCreateEncoder(lang, serial) == [lang |-> lang, serial |-> serial]

\* the token of a unit id: past the control symbols and the language tokens
UnitIndex(unit) == unit + 30

ApplyTextEncoder(enc, text) == << text_eos_idx, TextLangTok(enc.lang) >> \o text
ApplyUnitEncoder(enc, units) ==
    << unit_eos_idx, UnitLangTok(enc.lang) >> \o [i \in 1..Len(units) |-> UnitIndex(units[i])]

---------------------------------------------------------------------------
(* Sample records.  A record carries what its files and fields yield:      *)
(*   audio  what torchaudio.load returns: wav.shape = (channels, frames)   *)
(*          and the file's sample rate;                                    *)
(*   fbank  what WaveformToFbankConverter returns for the waveform;        *)
(*   lang, text, units   sample.target.lang / .text / .units (None or a    *)
(*          list of unit ids).                                             *)

Sample(audio, fbank, lang, text, units) ==
    [audio |-> audio, fbank |-> fbank, lang |-> lang, text |-> text, units |-> units]

Audio(channels, frames, rate) == [channels |-> channels, frames |-> frames, sample_rate |-> rate]

\* sample rates a file can have: the expected one and another
Rates == {SAMPLE_RATE, SAMPLE_RATE \div 2}

\* frame counts: a degenerate one-frame file, and the two around the duration bound
FrameCounts(rate) == {1, max_audio_length_sec * rate, max_audio_length_sec * rate + 1}

Audios == UNION { { Audio(c, f, r) : c \in {1, 2}, f \in FrameCounts(r) } : r \in Rates }

ShortAudio == Audio(1, max_audio_length_sec * SAMPLE_RATE, SAMPLE_RATE)
LongAudio == Audio(1, max_audio_length_sec * SAMPLE_RATE + 1, SAMPLE_RATE)

FiniteFbank(n) == [i \in 1..n |-> "x"]
NanFbank(n) == [i \in 1..n |-> IF i = n THEN "nan" ELSE "x"]

Texts == SeqsOf(TextPieces, 0, MaxTextLen)
UnitSeqs == { None } \cup { Some(u) : u \in SeqsOf(UnitIds, 0, MaxUnitsLen) }

\* A manifest whose records differ in their audio and in their features' values
AudioManifest ==
    { Sample(a, << v >>, "eng", << 7 >>, Some(<< 5 >>)) : a \in Audios, v \in {"x", "nan", "inf"} }

\* A manifest whose records differ in their feature lengths and in their targets
TargetManifest ==
    { Sample(a, f, l, t, u) :
        a \in {ShortAudio, LongAudio},
        f \in { FiniteFbank(n) : n \in 1..MaxFbankLen } \cup { NanFbank(MaxFbankLen) },
        l \in Langs, t \in Texts, u \in UnitSeqs }

Manifests == {"audio", "target"}

\* _load_manifest: the records of self.dataset
_load_manifest(dataset_manifest_path) ==
    IF dataset_manifest_path = "audio" THEN AudioManifest ELSE TargetManifest

---------------------------------------------------------------------------
(* UnitYDataLoader's methods *)

\* a slip: min(wav.shape) for max(wav.shape)
_is_long_src_audio_min(sample) ==
    LET length == Min(sample.audio.channels, sample.audio.frames)
    IN  length > max_audio_length_sec * sample.audio.sample_rate

\* _is_long_src_audio: max(wav.shape) / sample_rate > max_audio_length_sec
_is_long_src_audio(sample) ==
    LET length == Max(sample.audio.channels, sample.audio.frames)
    IN  length > max_audio_length_sec * sample.audio.sample_rate

\* _get_source_fbank's assertion: int(sample_rate) == self.SAMPLE_RATE
\* (torchaudio.load returns a 2-D waveform, so the shape assertion holds)
FbankAssertionHolds(sample) == sample.audio.sample_rate = SAMPLE_RATE

\* _get_source_fbank: the converter's output for the sample's waveform
_get_source_fbank(sample) == sample.fbank

\* a slip: only the first time step is looked at
HasNan_first(fbank) == fbank[1] = "nan"

\* fbank.isnan().any().item()
HasNan(fbank) == \E i \in 1..Len(fbank) : fbank[i] = "nan"

\* [x for x, skip in zip(xs, skips) if not skip]
RECURSIVE ZipFilter(_, _)
ZipFilter(xs, skips) ==
    IF xs = << >> \/ skips = << >> THEN << >>
    ELSE (IF Head(skips) THEN << >> ELSE << Head(xs) >>) \o ZipFilter(Tail(xs), Tail(skips))

\* pad_tensor(tensor, padding, "constant", value): padding lists (left, right)
\* pairs from the last dimension to the first, so for a tensor of `dims`
\* dimensions the pair of the leading dimension is the last one
pad_tensor(tensor, dims, padding, value) ==
    LET left == padding[2 * dims - 1]
        right == padding[2 * dims]
    IN  [i \in 1..left |-> value] \o tensor \o [i \in 1..right |-> value]

\* a slip: padding[-2] for padding[-1], which pads on the left
PaddingOf_left(dims, amount) ==
    [i \in 1..(2 * dims) |-> IF i = 2 * dims - 1 THEN amount ELSE 0]

\* padding = [0] * 2 * dims; padding[-1] = padding_size - tensor.shape[0]
PaddingOf(dims, amount) == [i \in 1..(2 * dims) |-> IF i = 2 * dims THEN amount ELSE 0]

\* _batch_tensors: pad every tensor to the longest and stack them
_batch_tensors(tensors, dims, pad_value) ==
    LET padding_size == MaxOf([i \in 1..Len(tensors) |-> Len(tensors[i])])
    IN  [i \in 1..Len(tensors) |->
            pad_tensor(tensors[i], dims, PaddingOf(dims, padding_size - Len(tensors[i])), pad_value)]

\* a dict with `key` bound to `value`
DictPut(dict, key, value) ==
    [k \in DOMAIN dict \cup {key} |-> IF k = key THEN value ELSE dict[k]]

\* a slip: the encoder is constructed for every sample
_get_tokenized_target_text_uncached(sample, encoders, creates) ==
    LET target_lang == sample.lang
        creates2 == [creates EXCEPT ![target_lang] = @ + 1]
        encoders2 == DictPut(encoders, target_lang,
                             TextCreateEncoder(target_lang, creates2[target_lang]))
        tokens == ApplyTextEncoder(encoders2[target_lang], sample.text)
    IN  [tokens |-> tokens \o << text_eos_idx >>, encoders |-> encoders2, creates |-> creates2]

\* _get_tokenized_target_text, with the cache and the count of constructions
_get_tokenized_target_text(sample, encoders, creates) ==
    LET target_lang == sample.lang
        miss == target_lang \notin DOMAIN encoders
        creates2 == IF miss THEN [creates EXCEPT ![target_lang] = @ + 1] ELSE creates
        encoders2 == IF miss
                     THEN DictPut(encoders, target_lang,
                                  TextCreateEncoder(target_lang, creates2[target_lang]))
                     ELSE encoders
        tokens == ApplyTextEncoder(encoders2[target_lang], sample.text)
    IN  [tokens |-> tokens \o << text_eos_idx >>, encoders |-> encoders2, creates |-> creates2]

\* _get_tokenized_units: None for a sample without units
_get_tokenized_units(sample, encoders, creates) ==
    IF sample.units = None
    THEN [tokens |-> None, encoders |-> encoders, creates |-> creates]
    ELSE
    LET target_lang == sample.lang
        miss == target_lang \notin DOMAIN encoders
        creates2 == IF miss THEN [creates EXCEPT ![target_lang] = @ + 1] ELSE creates
        encoders2 == IF miss
                     THEN DictPut(encoders, target_lang,
                                  UnitCreateEncoder(target_lang, creates2[target_lang]))
                     ELSE encoders
        tokens == ApplyUnitEncoder(encoders2[target_lang], sample.units[1])
    IN  [tokens |-> Some(tokens \o << unit_eos_idx >>), encoders |-> encoders2,
         creates |-> creates2]

\* [self._get_tokenized_target_text(sample) for sample in samples], in order
RECURSIVE TextTokensList(_, _, _)
TextTokensList(samples, encoders, creates) ==
    IF samples = << >> THEN [list |-> << >>, encoders |-> encoders, creates |-> creates]
    ELSE LET r == _get_tokenized_target_text(Head(samples), encoders, creates)
             rest == TextTokensList(Tail(samples), r.encoders, r.creates)
         IN  [list |-> << r.tokens >> \o rest.list, encoders |-> rest.encoders,
              creates |-> rest.creates]

\* [self._get_tokenized_units(sample) for sample in samples], in order
RECURSIVE UnitsListRaw(_, _, _)
UnitsListRaw(samples, encoders, creates) ==
    IF samples = << >> THEN [list |-> << >>, encoders |-> encoders, creates |-> creates]
    ELSE LET r == _get_tokenized_units(Head(samples), encoders, creates)
             rest == UnitsListRaw(Tail(samples), r.encoders, r.creates)
         IN  [list |-> << r.tokens >> \o rest.list, encoders |-> rest.encoders,
              creates |-> rest.creates]

\* tokens[:-1]
DropLast(tokens) == SubSeq(tokens, 1, Len(tokens) - 1)

\* a slip: the target is not shifted
DropFirst_unshifted(tokens) == tokens

\* tokens[1:]
DropFirst(tokens) == SubSeq(tokens, 2, Len(tokens))

SeqsBatch(src_tokens, src_lengths, target_tokens, prev_output_tokens, target_lengths) ==
    [src_tokens |-> src_tokens, src_lengths |-> src_lengths, target_tokens |-> target_tokens,
     prev_output_tokens |-> prev_output_tokens, target_lengths |-> target_lengths]

---------------------------------------------------------------------------
(* The stages of _prepare_batch *)

\* filtered_samples, then `filtered_samples if filtered_samples else [samples[0]]`
DurationPass(samples) ==
    LET filtered_samples == SelectSeq(samples, LAMBDA sample : ~_is_long_src_audio(sample))
    IN  IF filtered_samples # << >> THEN filtered_samples ELSE << samples[1] >>

\* with_nans = [fbank.isnan().any().item() for fbank in src_tokens_list]
WithNans(src_tokens_list) == [i \in 1..Len(src_tokens_list) |-> HasNan(src_tokens_list[i])]

\* a slip: the samples are not filtered while their features are
NanPassSamples_unfiltered(samples, with_nans) == samples

\* a slip: the first sample is kept when the NaN pass leaves none
NanPassSamples_fallback(samples, with_nans) ==
    IF ZipFilter(samples, with_nans) # << >> THEN ZipFilter(samples, with_nans)
    ELSE << samples[1] >>

\* samples = [sample for sample, skip in zip(samples, with_nans) if not skip]
NanPassSamples(samples, with_nans) == ZipFilter(samples, with_nans)

\* a slip: the features are not filtered while their samples are
NanPassTokens_unfiltered(src_tokens_list, with_nans) == src_tokens_list

\* src_tokens_list = [src_toks for src_toks, skip in zip(src_tokens_list, with_nans) if not skip]
NanPassTokens(src_tokens_list, with_nans) == ZipFilter(src_tokens_list, with_nans)

\* src_lengths = LongTensor([src_tokens.shape[0] for src_tokens in src_tokens_list])
SrcLengths(src_tokens_list) == [i \in 1..Len(src_tokens_list) |-> Len(src_tokens_list[i])]

\* prev_output tokens: _batch_tensors([tokens[:-1] for tokens in list], pad)
PrevOutputs(tokens_list, pad_idx) ==
    _batch_tensors([i \in 1..Len(tokens_list) |-> DropLast(tokens_list[i])], 1, pad_idx)

\* target tokens: _batch_tensors([tokens[1:] for tokens in list], pad)
Targets(tokens_list, pad_idx) ==
    _batch_tensors([i \in 1..Len(tokens_list) |-> DropFirst(tokens_list[i])], 1, pad_idx)

\* lengths: LongTensor([tokens.shape[0] - 1 for tokens in list])
TargetLengths(tokens_list) == [i \in 1..Len(tokens_list) |-> Len(tokens_list[i]) - 1]

\* a slip: the samples without units are left out of the sub-batch
UnitsBatch_skip_missing(units_list_raw) ==
    LET present == SelectSeq(units_list_raw, LAMBDA tokens : tokens # None)
        units_list == [i \in 1..Len(present) |-> present[i][1]]
    IN  IF present = << >>
        THEN SeqsBatch(None, None, None, None, None)
        ELSE SeqsBatch(None, None,
                       Some(Targets(units_list, unit_pad_idx)),
                       Some(PrevOutputs(units_list, unit_pad_idx)),
                       Some(TargetLengths(units_list)))

\* the text_to_units sub-batch: all absent `if None in units_list_raw`
UnitsBatch(units_list_raw) ==
    IF \E i \in 1..Len(units_list_raw) : units_list_raw[i] = None
    THEN SeqsBatch(None, None, None, None, None)
    ELSE LET units_list == [i \in 1..Len(units_list_raw) |-> units_list_raw[i][1]]
         IN  SeqsBatch(None, None,
                       Some(Targets(units_list, unit_pad_idx)),
                       Some(PrevOutputs(units_list, unit_pad_idx)),
                       Some(TargetLengths(units_list)))

\* the speech_to_text sub-batch (`.to(float_dtype)` leaves the features as
\* they are: the converter already yields float_dtype)
SpeechBatch(src_tokens_list, text_tokens_list) ==
    SeqsBatch(Some(_batch_tensors(src_tokens_list, 2, fbank_feats_pad_idx)),
              Some(SrcLengths(src_tokens_list)),
              Some(Targets(text_tokens_list, text_pad_idx)),
              Some(PrevOutputs(text_tokens_list, text_pad_idx)),
              Some(TargetLengths(text_tokens_list)))

NoBatch == [speech_to_text |-> SeqsBatch(None, None, None, None, None),
            text_to_units |-> SeqsBatch(None, None, None, None, None)]

\* what a call leaves behind: its argument, its locals, how it ended, its result
CallRecord(raw_samples, after_duration, samples, text_tokens_list, units_list_raw, failure, batch) ==
    [raw_samples |-> raw_samples, after_duration |-> after_duration, samples |-> samples,
     text_tokens_list |-> text_tokens_list, units_list_raw |-> units_list_raw,
     failure |-> failure, batch |-> batch]

NoCall == CallRecord(<< >>, << >>, << >>, << >>, << >>, "none", NoBatch)

\* _prepare_batch on raw_samples with the loader's caches: the call's record
\* and the caches it leaves.  The two assertions end the call: the one in
\* _get_source_fbank (sample rate) and `assert len(samples) > 0`.
_prepare_batch(raw_samples, text_encoders, text_count, unit_encoders, unit_count) ==
    LET after_duration == DurationPass(raw_samples)
        unchanged == [text_encoders |-> text_encoders, text_count |-> text_count,
                      unit_encoders |-> unit_encoders, unit_count |-> unit_count]
    IN  IF \E i \in 1..Len(after_duration) : ~FbankAssertionHolds(after_duration[i])
        THEN [call |-> CallRecord(raw_samples, after_duration, << >>, << >>, << >>,
                                  "sample_rate", NoBatch)] @@ unchanged
        ELSE
        LET src_tokens_list == [i \in 1..Len(after_duration) |->
                                   _get_source_fbank(after_duration[i])]
            with_nans == WithNans(src_tokens_list)
            samples == NanPassSamples(after_duration, with_nans)
        IN  IF ~(Len(samples) > 0)
            THEN [call |-> CallRecord(raw_samples, after_duration, samples, << >>, << >>,
                                      "empty_batch", NoBatch)] @@ unchanged
            ELSE
            LET kept_tokens == NanPassTokens(src_tokens_list, with_nans)
                text == TextTokensList(samples, text_encoders, text_count)
                units == UnitsListRaw(samples, unit_encoders, unit_count)
                batch == [speech_to_text |-> SpeechBatch(kept_tokens, text.list),
                          text_to_units |-> UnitsBatch(units.list)]
            IN  [call |-> CallRecord(raw_samples, after_duration, samples, text.list,
                                     units.list, "none", batch),
                 text_encoders |-> text.encoders, text_count |-> text.creates,
                 unit_encoders |-> units.encoders, unit_count |-> units.creates]

---------------------------------------------------------------------------
(* Sharding *)

\* datasets.distributed.split_dataset_by_node on a map-style dataset: the
\* contiguous shard `rank` of `world_size`, as the indices it holds
split_dataset_by_node(dataset_len, rank, world_size) ==
    LET div == dataset_len \div world_size
        mod == dataset_len % world_size
        start == div * rank + Min(rank, mod)
        size == div + (IF rank < mod THEN 1 ELSE 0)
    IN  [i \in 1..size |-> start + i - 1]

\* a slip: every process asks for the shard of rank 0
ShardArguments_rank0(rank, world_size) == [rank |-> 0, world_size |-> world_size]

\* the rank and world size get_dataloader hands over: those of the process's
\* BatchingConfig
ShardArguments(rank, world_size) == [rank |-> rank, world_size |-> world_size]

NoWorld == [dataset_len |-> 0, world_size |-> 1, subset |-> << >>]
NoTensors == [tensors |-> << >>, dims |-> 1, pad_value |-> 0, out |-> None]

---------------------------------------------------------------------------
(* The loader: one UnitYDataLoader and the consumer of its batches *)

Init ==
    /\ manifest \in Manifests
    /\ text_encoders_per_lang = << >>
    /\ unit_encoders_per_lang = << >>
    /\ text_creates = [l \in Langs |-> 0]
    /\ unit_creates = [l \in Langs |-> 0]
    /\ pc = "idle"
    /\ call = NoCall
    /\ world = NoWorld
    /\ bt = NoTensors

\* the DataLoader hands a batch of at most batch_size records to collate_fn
PrepareBatch ==
    /\ pc = "idle"
    /\ \E raw_samples \in SeqsOf(_load_manifest(manifest), 1, batch_size) :
          \E r \in { _prepare_batch(raw_samples, text_encoders_per_lang, text_creates,
                                     unit_encoders_per_lang, unit_creates) } :
              /\ call' = r.call
              /\ pc' = IF r.call.failure = "none" THEN "returned" ELSE "failed"
              /\ text_encoders_per_lang' = r.text_encoders
              /\ text_creates' = r.text_count
              /\ unit_encoders_per_lang' = r.unit_encoders
              /\ unit_creates' = r.unit_count
    /\ UNCHANGED << manifest, world, bt >>

\* the training loop drops the batch after its step (MultimodalSeqsBatch.__del__)
Release ==
    /\ pc = "returned"
    /\ pc' = "idle"
    /\ call' = NoCall
    /\ UNCHANGED << manifest, text_encoders_per_lang, unit_encoders_per_lang,
                    text_creates, unit_creates, world, bt >>

Next == PrepareBatch \/ Release

Spec == Init /\ [][Next]_vars

---------------------------------------------------------------------------
(* The process group: every rank's loader builds its DataLoader *)

InitShard ==
    /\ manifest = "none"
    /\ text_encoders_per_lang = << >>
    /\ unit_encoders_per_lang = << >>
    /\ text_creates = [l \in Langs |-> 0]
    /\ unit_creates = [l \in Langs |-> 0]
    /\ pc = "idle"
    /\ call = NoCall
    /\ bt = NoTensors
    /\ \E n \in 0..MaxRecords, w \in 1..MaxWorld :
          world = [dataset_len |-> n, world_size |-> w, subset |-> [r \in 0..(w - 1) |-> None]]

\* get_dataloader in the process of rank `rank`
GetDataloader(rank) ==
    LET args == ShardArguments(rank, world.world_size)
        subset == split_dataset_by_node(world.dataset_len, args.rank, args.world_size)
    IN  /\ world' = [world EXCEPT !.subset[rank] = Some(subset)]
        /\ UNCHANGED << manifest, text_encoders_per_lang, unit_encoders_per_lang,
                        text_creates, unit_creates, pc, call, bt >>

NextShard == \E rank \in 0..(world.world_size - 1) : GetDataloader(rank)

SpecShard == InitShard /\ [][NextShard]_vars

---------------------------------------------------------------------------
(* _batch_tensors on its own: any list of tensors, any pad value *)

TensorValues == {1, 2}
PadValues == {0, 9}

InitPad ==
    /\ manifest = "none"
    /\ text_encoders_per_lang = << >>
    /\ unit_encoders_per_lang = << >>
    /\ text_creates = [l \in Langs |-> 0]
    /\ unit_creates = [l \in Langs |-> 0]
    /\ pc = "idle"
    /\ call = NoCall
    /\ world = NoWorld
    /\ \E tensors \in SeqsOf(SeqsOf(TensorValues, 0, MaxTensorLen), 1, MaxTensors),
          dims \in {1, 2}, pad_value \in PadValues :
          bt = [tensors |-> tensors, dims |-> dims, pad_value |-> pad_value, out |-> None]

BatchTensors ==
    /\ bt.out = None
    /\ bt' = [bt EXCEPT !.out = Some(_batch_tensors(bt.tensors, bt.dims, bt.pad_value))]
    /\ UNCHANGED << manifest, text_encoders_per_lang, unit_encoders_per_lang,
                    text_creates, unit_creates, pc, call, world >>

NextPad == BatchTensors

SpecPad == InitPad /\ [][NextPad]_vars

---------------------------------------------------------------------------
(* What the claims speak of, stated from the samples alone *)

Returned == pc = "returned"
S2T == call.batch.speech_to_text
T2U == call.batch.text_to_units

\* the audio's duration, samples / sample rate, exceeds max_audio_length_sec
TooLong(sample) == sample.audio.frames > max_audio_length_sec * sample.audio.sample_rate

FeaturesHaveNan(sample) == \E i \in 1..Len(sample.fbank) : sample.fbank[i] = "nan"
FeaturesNonFinite(sample) == \E i \in 1..Len(sample.fbank) : sample.fbank[i] \in {"nan", "inf"}

\* the samples within the bound, in order; the first sample when there is none
ExpectedAfterDuration(raw) ==
    LET within == SelectSeq(raw, LAMBDA sample : ~TooLong(sample))
    IN  IF within = << >> THEN << raw[1] >> ELSE within

\* the survivors of both passes, in order
ExpectedSurvivors(raw) ==
    SelectSeq(ExpectedAfterDuration(raw), LAMBDA sample : ~FeaturesHaveNan(sample))

\* [<eos>, <lang_tok>, ..text tokens.., <eos>]
ExpectedText(sample) ==
    << text_eos_idx, TextLangTok(sample.lang) >> \o sample.text \o << text_eos_idx >>

\* [<eos>, <lang_tok>, ..unit tokens.., <eos>]
ExpectedUnits(sample) ==
    << unit_eos_idx, UnitLangTok(sample.lang) >>
        \o [i \in 1..Len(sample.units[1]) |-> UnitIndex(sample.units[1][i])]
        \o << unit_eos_idx >>

AllButLast(seq) == [i \in 1..(Len(seq) - 1) |-> seq[i]]
AllButFirst(seq) == [i \in 1..(Len(seq) - 1) |-> seq[i + 1]]

\* row `row` starts with `seq`
StartsWith(row, seq) == Len(row) >= Len(seq) /\ SubSeq(row, 1, Len(seq)) = seq

UnitsPresent ==
    /\ T2U.target_tokens # None
    /\ T2U.prev_output_tokens # None
    /\ T2U.target_lengths # None

UnitsAbsent ==
    /\ T2U.target_tokens = None
    /\ T2U.prev_output_tokens = None
    /\ T2U.target_lengths = None

---------------------------------------------------------------------------
\* C1: in every returned batch all present tensors have the same batch
\* dimension, the number of samples that survived both filters: the five
\* speech_to_text tensors agree, and the text_to_units target_tokens,
\* prev_output_tokens and target_lengths, whenever present, agree with them.
C1_BatchDimensionsAgree ==
    Returned =>
        LET n == Len(ExpectedSurvivors(call.raw_samples))
            units == << T2U.target_tokens, T2U.prev_output_tokens, T2U.target_lengths >>
        IN  /\ S2T.src_tokens # None /\ Len(S2T.src_tokens[1]) = n
            /\ S2T.src_lengths # None /\ Len(S2T.src_lengths[1]) = n
            /\ S2T.target_tokens # None /\ Len(S2T.target_tokens[1]) = n
            /\ S2T.prev_output_tokens # None /\ Len(S2T.prev_output_tokens[1]) = n
            /\ S2T.target_lengths # None /\ Len(S2T.target_lengths[1]) = n
            /\ \A k \in 1..3 : units[k] # None => Len(units[k][1]) = n

\* a batch of one survivor out of two samples, with its units present
C1_Witness ==
    /\ Returned
    /\ Len(call.raw_samples) = 2
    /\ Len(S2T.src_tokens[1]) = 1
    /\ UnitsPresent

\* C2: shift invariant.  For the tokenized target sequence S (length n) of
\* row r, text and units alike: prev_output_tokens[r][i] = S[i] and
\* target_tokens[r][i] = S[i+1] for the n-1 positions, and
\* target_lengths[r] = n-1.
C2_ShiftInvariant ==
    Returned =>
        /\ Len(call.text_tokens_list) = Len(S2T.target_lengths[1])
        /\ \A r \in 1..Len(call.text_tokens_list) :
              LET S == call.text_tokens_list[r]
                  n == Len(S)
              IN  /\ \A i \in 1..(n - 1) :
                        /\ S2T.prev_output_tokens[1][r][i] = S[i]
                        /\ S2T.target_tokens[1][r][i] = S[i + 1]
                  /\ S2T.target_lengths[1][r] = n - 1
        /\ UnitsPresent =>
              /\ Len(call.units_list_raw) = Len(T2U.target_lengths[1])
              /\ \A r \in 1..Len(call.units_list_raw) :
                    LET S == call.units_list_raw[r][1]
                        n == Len(S)
                    IN  /\ \A i \in 1..(n - 1) :
                              /\ T2U.prev_output_tokens[1][r][i] = S[i]
                              /\ T2U.target_tokens[1][r][i] = S[i + 1]
                        /\ T2U.target_lengths[1][r] = n - 1

\* two rows of different text lengths, units present
C2_Witness ==
    /\ Returned
    /\ UnitsPresent
    /\ Len(call.text_tokens_list) = 2
    /\ Len(call.text_tokens_list[1]) > Len(call.text_tokens_list[2])
    /\ Len(call.units_list_raw[1][1]) >= 3

\* C3: the duration pass keeps, in order, exactly the samples whose duration
\* (samples / sample rate) does not exceed max_audio_length_sec, and the
\* single first sample when every sample exceeds it.
C3_DurationFilter ==
    pc # "idle" => call.after_duration = ExpectedAfterDuration(call.raw_samples)

\* every sample over the bound: the first one is kept
C3_Witness ==
    /\ pc # "idle"
    /\ Len(call.raw_samples) = 2
    /\ \A i \in 1..2 : TooLong(call.raw_samples[i])
    /\ call.raw_samples[1] # call.raw_samples[2]
    /\ call.after_duration = << call.raw_samples[1] >>

\* C4 as claimed: no feature matrix with a non-finite value (NaN or
\* +/-infinity) is in a batch's source tokens; every such sample is dropped.
C4_NonFiniteNeverInBatch ==
    Returned =>
        /\ \A r \in 1..Len(S2T.src_tokens[1]) : \A i \in 1..Len(S2T.src_tokens[1][r]) :
              S2T.src_tokens[1][r][i] \notin {"nan", "inf"}
        /\ \A i \in 1..Len(call.samples) : ~FeaturesNonFinite(call.samples[i])

\* C4 as amended: no feature matrix with a NaN is in a batch's source
\* tokens; every sample whose features contain a NaN is dropped, and no other.
C4_NanNeverInBatch ==
    Returned =>
        /\ \A r \in 1..Len(S2T.src_tokens[1]) : \A i \in 1..Len(S2T.src_tokens[1][r]) :
              S2T.src_tokens[1][r][i] # "nan"
        /\ call.samples = SelectSeq(ExpectedAfterDuration(call.raw_samples),
                                    LAMBDA sample : ~FeaturesHaveNan(sample))

\* a sample with NaN features was dropped from a returned batch
C4_Witness ==
    /\ Returned
    /\ \E i \in 1..Len(call.after_duration) : FeaturesHaveNan(call.after_duration[i])
    /\ Len(call.samples) < Len(call.after_duration)

\* C5: if any survivor of both passes has no unit sequence, the three
\* text_to_units tensors are None; if every survivor has one, all three are
\* present.
C5_UnitAbsenceRule ==
    Returned =>
        LET survivors == ExpectedSurvivors(call.raw_samples)
        IN  IF \E i \in 1..Len(survivors) : survivors[i].units = None
            THEN UnitsAbsent
            ELSE UnitsPresent

\* a dropped sample without units beside a survivor with units: units present
C5_Witness ==
    /\ Returned
    /\ UnitsPresent
    /\ \E i \in 1..Len(call.raw_samples) : call.raw_samples[i].units = None

\* C6: once every rank has built its loader, the shards are pairwise
\* disjoint and their union is the dataset, each record exactly once; with
\* world_size 1 the shard is the dataset itself.
C6_ShardingPartition ==
    (\A r \in DOMAIN world.subset : world.subset[r] # None) =>
        /\ \A idx \in 0..(world.dataset_len - 1) :
              Cardinality({ p \in { << r, i >> : r \in DOMAIN world.subset, i \in 1..MaxRecords + 1 } :
                              /\ p[2] <= Len(world.subset[p[1]][1])
                              /\ world.subset[p[1]][1][p[2]] = idx }) = 1
        /\ \A r \in DOMAIN world.subset : \A i \in 1..Len(world.subset[r][1]) :
              world.subset[r][1][i] \in 0..(world.dataset_len - 1)
        /\ world.world_size = 1 /\ DOMAIN world.subset # {} =>
              world.subset[0][1] = [i \in 1..world.dataset_len |-> i - 1]

\* three ranks have split a dataset that does not divide evenly
C6_Witness ==
    /\ world.world_size = 3
    /\ world.dataset_len = 5
    /\ \A r \in DOMAIN world.subset : world.subset[r] # None
    /\ DOMAIN world.subset = 0..2

\* C7 as claimed: a call returns a batch of at least one sample or fails
\* fatally, and fails exactly when every survivor of the duration pass has
\* NaN features.
C7_FailsExactlyWhenAllNan ==
    pc # "idle" =>
        LET survivors == ExpectedAfterDuration(call.raw_samples)
        IN  /\ Returned => Len(S2T.src_tokens[1]) >= 1
            /\ pc = "failed" <=> \A i \in 1..Len(survivors) : FeaturesHaveNan(survivors[i])

\* C7 as amended: a call returns a batch of at least one sample or fails
\* fatally; it fails in feature extraction when a survivor of the duration
\* pass is not sampled at SAMPLE_RATE, and otherwise fails, at the emptiness
\* assertion, exactly when every survivor of the duration pass has NaN
\* features.
C7_NeverEmpty ==
    pc # "idle" =>
        LET survivors == ExpectedAfterDuration(call.raw_samples)
            wrong_rate == \E i \in 1..Len(survivors) :
                              survivors[i].audio.sample_rate # SAMPLE_RATE
            all_nan == \A i \in 1..Len(survivors) : FeaturesHaveNan(survivors[i])
        IN  /\ Returned => Len(S2T.src_tokens[1]) >= 1
            /\ pc \in {"returned", "failed"}
            /\ call.failure = "sample_rate" <=> wrong_rate
            /\ call.failure = "empty_batch" <=> ~wrong_rate /\ all_nan
            /\ pc = "failed" <=> call.failure # "none"

\* every sample over the bound, the first one kept, its features NaN: the
\* call fails at the emptiness assertion
C7_Witness ==
    /\ pc = "failed"
    /\ call.failure = "empty_batch"
    /\ Len(call.raw_samples) = 2
    /\ \A i \in 1..2 : TooLong(call.raw_samples[i])
    /\ ~FeaturesHaveNan(call.raw_samples[2])

\* C8: _batch_tensors returns one row per tensor, each of the maximum
\* leading length L, row r holding tensor r unchanged in its first len_r
\* positions and the pad value after them; tensors of equal length come
\* back unaltered.
C8_Padding ==
    bt.out # None =>
        LET out == bt.out[1]
            tensors == bt.tensors
            rows == 1..Len(tensors)
        IN  /\ Len(out) = Len(tensors)
            /\ \E L \in 0..(MaxTensorLen + 1) :
                  /\ \A r \in rows : Len(tensors[r]) <= L
                  /\ \E r \in rows : Len(tensors[r]) = L
                  /\ \A r \in rows :
                        /\ Len(out[r]) = L
                        /\ \A i \in 1..Len(tensors[r]) : out[r][i] = tensors[r][i]
                        /\ \A i \in (Len(tensors[r]) + 1)..L : out[r][i] = bt.pad_value
            /\ (\A r \in rows : Len(tensors[r]) = Len(tensors[1])) => out = tensors

\* two tensors of different lengths have been padded
C8_Witness ==
    /\ bt.out # None
    /\ Len(bt.tensors) = 2
    /\ Len(bt.tensors[1]) < Len(bt.tensors[2])
    /\ Len(bt.tensors[1]) > 0

\* C9: each encoder is constructed at most once per target language, on the
\* first sample of that language that needs it; a cached entry is never
\* removed or replaced; every sample of a returned batch has its encoders
\* in the cache.
C9_TokenizerCache ==
    [][ /\ \A l \in DOMAIN text_encoders_per_lang :
              /\ l \in DOMAIN text_encoders_per_lang'
              /\ text_encoders_per_lang'[l] = text_encoders_per_lang[l]
        /\ \A l \in DOMAIN unit_encoders_per_lang :
              /\ l \in DOMAIN unit_encoders_per_lang'
              /\ unit_encoders_per_lang'[l] = unit_encoders_per_lang[l]
        /\ \A l \in Langs :
              /\ text_creates'[l] = (IF l \in DOMAIN text_encoders_per_lang' THEN 1 ELSE 0)
              /\ unit_creates'[l] = (IF l \in DOMAIN unit_encoders_per_lang' THEN 1 ELSE 0)
        /\ pc' = "returned" =>
              \A i \in 1..Len(call'.samples) :
                  /\ call'.samples[i].lang \in DOMAIN text_encoders_per_lang'
                  /\ call'.samples[i].units # None =>
                        call'.samples[i].lang \in DOMAIN unit_encoders_per_lang'
      ]_vars

\* a later call whose two samples share a language: one construction serves
\* both, beside the other language's encoders from an earlier call
C9_Witness ==
    /\ Returned
    /\ Len(call.samples) = 2
    /\ \A i \in 1..2 : call.samples[i].lang = "eng" /\ call.samples[i].units # None
    /\ DOMAIN text_encoders_per_lang = Langs
    /\ DOMAIN unit_encoders_per_lang = Langs
    /\ \A l \in Langs : text_creates[l] = 1 /\ unit_creates[l] = 1

\* C10: row i of src_tokens, src_lengths[i], row i of the text tensors and,
\* when present, row i of the unit tensors all come from the i-th survivor
\* of the two passes, in the order of the raw batch; src_lengths[i] is that
\* sample's unpadded feature length.
C10_RowAlignment ==
    Returned =>
        LET survivors == ExpectedSurvivors(call.raw_samples)
            rows == 1..Len(survivors)
        IN  /\ Len(S2T.src_tokens[1]) = Len(survivors)
            /\ Len(S2T.src_lengths[1]) = Len(survivors)
            /\ Len(S2T.target_tokens[1]) = Len(survivors)
            /\ Len(S2T.prev_output_tokens[1]) = Len(survivors)
            /\ \A i \in rows :
                  /\ S2T.src_lengths[1][i] = Len(survivors[i].fbank)
                  /\ StartsWith(S2T.src_tokens[1][i], survivors[i].fbank)
                  /\ StartsWith(S2T.prev_output_tokens[1][i], AllButLast(ExpectedText(survivors[i])))
                  /\ StartsWith(S2T.target_tokens[1][i], AllButFirst(ExpectedText(survivors[i])))
                  /\ S2T.target_lengths[1][i] = Len(ExpectedText(survivors[i])) - 1
            /\ UnitsPresent =>
                  \A i \in rows :
                      /\ StartsWith(T2U.prev_output_tokens[1][i],
                                    AllButLast(ExpectedUnits(survivors[i])))
                      /\ StartsWith(T2U.target_tokens[1][i],
                                    AllButFirst(ExpectedUnits(survivors[i])))
                      /\ T2U.target_lengths[1][i] = Len(ExpectedUnits(survivors[i])) - 1

\* the first of two samples was dropped for its NaN features; the survivor,
\* of another language, text and feature length, is row 1
C10_Witness ==
    /\ Returned
    /\ Len(call.raw_samples) = 2
    /\ FeaturesHaveNan(call.raw_samples[1])
    /\ ~TooLong(call.raw_samples[1])
    /\ call.raw_samples[1].lang # call.raw_samples[2].lang
    /\ call.raw_samples[1].text # call.raw_samples[2].text
    /\ Len(call.raw_samples[1].fbank) # Len(call.raw_samples[2].fbank)
    /\ UnitsPresent
    /\ Len(S2T.src_tokens[1]) = 1

====
